---- MODULE Spec2Model ----
(***************************************************************************)
(* Model of the iavl v2 -> v3 sqlite migration (v2/migrate_v2.go):         *)
(* shard arithmetic, the tree store migrator, the changelog store migrator *)
(* and the migration orchestrator.                                         *)
(***************************************************************************)
EXTENDS Integers, Sequences, FiniteSets, TLC

(***************************************************************************)
(* Shard arithmetic: the last call of ToShardID or calculateShardRange     *)
(* with its arguments and its result.                                      *)
(***************************************************************************)
VARIABLE call

shardVars == <<call>>

(***************************************************************************)
(* Tree store migrator.  Source tree store: tree_1 in rowid order, root,   *)
(* and the orphan table (which may be absent from the file).  Destination  *)
(* tree store: newDB maps each table name of the destination file to its   *)
(* rows.  The others are migrateTree's locals, its position, its return    *)
(* value and, once the process has exited, what log.Fatalf printed.        *)
(***************************************************************************)
VARIABLES oldTree, oldRoot, oldOrphan, oldHasOrphan,
          newDB, attached,
          count, rootCount, minVersion, maxVersion, shardIDs, shardIdx,
          tpc, tret, tlog

treeSource == <<oldTree, oldRoot, oldOrphan, oldHasOrphan>>

treeLocals == <<count, rootCount, minVersion, maxVersion, shardIDs, shardIdx>>

treeVars == <<treeSource, newDB, attached, treeLocals, tpc, tret, tlog>>

(***************************************************************************)
(* Changelog store migrator.  Source changelog store: leaf in scan order   *)
(* and leaf_orphan.  Destination changelog store: clDB is what is          *)
(* committed to the file, clTx the tables as the open transaction sees     *)
(* them.  h is the data written to the pooled hasher since its last reset, *)
(* rowIdx the number of source rows scanned; cpc and cret are              *)
(* migrateChangelog's position and return value.                           *)
(***************************************************************************)
VARIABLES oldLeaf, oldLeafOrphan, clDB, clTx, h, rowIdx, cpc, cret

clSource == <<oldLeaf, oldLeafOrphan>>

clVars == <<clSource, clDB, clTx, h, rowIdx, cpc, cret>>

(***************************************************************************)
(* Orchestrator.  entries is the listing of the base directory, filter the *)
(* --store-keys list, concurrent the --concurrent flag; stores is the      *)
(* result of getStoreKeys and storeIdx the position of migrate's loop.     *)
(* For each store, spc is the position of its migrateStore call and sret   *)
(* that call's return value; treeRun and clRun tell how far the call went  *)
(* with each file: "none" (not reached), "missing" (os.Stat failed), or    *)
(* the outcome of the migrator.  mpc and mret are migrate's position and   *)
(* return value.                                                           *)
(***************************************************************************)
VARIABLES entries, filter, concurrent, stores, storeIdx, spc, sret,
          treeRun, clRun, mpc, mret

(***************************************************************************)
(* Parallel mode of migrate: maxWorkers, the number of tokens in the       *)
(* channel sem, the counter of the WaitGroup wg, firstErr, the holder of   *)
(* the mutex mu, and the position gpc of each store's goroutine.           *)
(***************************************************************************)
VARIABLES maxWorkers, sem, wg, firstErr, mu, gpc

migInput == <<entries, filter, concurrent>>

parVars == <<maxWorkers, sem, wg, firstErr, mu, gpc>>

migVars == <<migInput, stores, storeIdx, spc, sret, treeRun, clRun, mpc, mret,
             parVars>>

vars == <<shardVars, treeVars, clVars, migVars>>

\* The variables of the other components, which a component's steps leave alone.
notShard == <<treeVars, clVars, migVars>>

notTree == <<shardVars, clVars, migVars>>

notChangelog == <<shardVars, treeVars, migVars>>

notMigrate == <<shardVars, treeVars, clVars>>

\* ------------------------------------------------------------------------
\* Shard arithmetic (pure functions)
\* ------------------------------------------------------------------------

defaultStartShardID == 1

defaultTreeShardSize == 500000

\* Go's integer division truncates toward zero (b > 0 here).
GoDiv(a, b) == IF a >= 0 THEN a \div b ELSE -((-a) \div b)

\* Mutant of ToShardID: the "-1" of the bucketing is forgotten.
ToShardIDNoMinusOne(version) ==
    IF version <= 0
    THEN defaultStartShardID
    ELSE GoDiv(version, defaultTreeShardSize) + defaultStartShardID

ToShardID(version) ==
    IF version <= 0
    THEN defaultStartShardID
    ELSE GoDiv(version - 1, defaultTreeShardSize) + defaultStartShardID

\* The loop "for shardID := minShard; shardID <= maxShard; shardID++".
RECURSIVE ShardLoop(_, _, _)
ShardLoop(shardID, maxShard, shards) ==
    IF shardID <= maxShard
    THEN ShardLoop(shardID + 1, maxShard, Append(shards, shardID))
    ELSE shards

\* Mutant of calculateShardRange: the loop stops one short of maxShard.
calculateShardRangeExclusive(minVer, maxVer) ==
    IF minVer <= 0 \/ maxVer <= 0
    THEN <<1>>
    ELSE ShardLoop(ToShardID(minVer), ToShardID(maxVer) - 1, <<>>)

calculateShardRange(minVer, maxVer) ==
    IF minVer <= 0 \/ maxVer <= 0
    THEN <<1>>
    ELSE ShardLoop(ToShardID(minVer), ToShardID(maxVer), <<>>)

\* Inputs of the shard arithmetic: the versions within Radius of each shard
\* boundary k * 500000 for k in 0..MaxBoundary, and the README's 4312305.
Radius == 2

MaxBoundary == 3

ShardVersions ==
    UNION { (k * defaultTreeShardSize - Radius)..(k * defaultTreeShardSize + Radius) :
              k \in 0..MaxBoundary }
    \cup {4312305}

CallToShardID ==
    /\ \E version \in ShardVersions :
         call' = [op |-> "ToShardID", version |-> version,
                  result |-> ToShardID(version)]
    /\ UNCHANGED notShard

CallCalculateShardRange ==
    /\ \E minVer \in ShardVersions, maxVer \in ShardVersions :
         call' = [op |-> "calculateShardRange",
                  minVersion |-> minVer, maxVersion |-> maxVer,
                  result |-> calculateShardRange(minVer, maxVer)]
    /\ UNCHANGED notShard

ShardNext == CallToShardID \/ CallCalculateShardRange

\* C1: ToShardID returns 1 for every version <= 0, and for every version >= 1
\* the shard r whose window [(r-1)*500000+1, r*500000] holds the version, i.e.
\* floor((version-1)/500000)+1; on the documented inputs 1, 500000 -> 1;
\* 500001, 1000000 -> 2; 1000001 -> 3; 4312305 -> 9.
ToShardIDIsBucketing ==
    call.op = "ToShardID" =>
        /\ call.version <= 0 => call.result = 1
        /\ call.version >= 1 =>
              /\ call.result >= 1
              /\ (call.result - 1) * 500000 + 1 <= call.version
              /\ call.version <= call.result * 500000
        /\ call.version \in {1, 500000} => call.result = 1
        /\ call.version \in {500001, 1000000} => call.result = 2
        /\ call.version = 1000001 => call.result = 3
        /\ call.version = 4312305 => call.result = 9

ToShardIDWitness ==
    /\ call.op = "ToShardID"
    /\ call.version = 500001
    /\ call.result = 2

\* C2: for minVersion <= maxVersion, calculateShardRange returns <<1>> when a
\* bound is non-positive, and otherwise the integers ToShardID(minVersion) ..
\* ToShardID(maxVersion) in ascending order without gap or duplicate.
ShardRangeIsContiguous ==
    (call.op = "calculateShardRange" /\ call.minVersion <= call.maxVersion) =>
        IF call.minVersion <= 0 \/ call.maxVersion <= 0
        THEN call.result = <<1>>
        ELSE /\ Len(call.result) =
                  ToShardID(call.maxVersion) - ToShardID(call.minVersion) + 1
             /\ \A i \in 1..Len(call.result) :
                  call.result[i] = ToShardID(call.minVersion) + i - 1

ShardRangeWitness ==
    /\ call.op = "calculateShardRange"
    /\ call.minVersion = 1
    /\ call.maxVersion = 4312305
    /\ call.result = <<1, 2, 3, 4, 5, 6, 7, 8, 9>>

\* ------------------------------------------------------------------------
\* Tree store migrator (migrateTree)
\* ------------------------------------------------------------------------

\* sql.NullInt64
NullInt64(v) == [Int64 |-> v, Valid |-> TRUE]

SqlNull == [Int64 |-> 0, Valid |-> FALSE]

\* Bound on the number of rows of the source tree_1 table.
MaxTreeRows == 2

TreeVersions == {SqlNull} \cup {NullInt64(v) : v \in {0, 1, 500000, 500001, 1000001}}

TreeRowDomain ==
    { [version |-> v, sequence |-> 1, bytes |-> p[1], orphaned |-> p[2]] :
        v \in TreeVersions, p \in {<<"a", FALSE>>, <<"b", TRUE>>} }

RootRowDomain ==
    { [version |-> 1, node_version |-> 1, node_sequence |-> 1, bytes |-> "root_data_1"],
      [version |-> 2, node_version |-> 2, node_sequence |-> 1, bytes |-> "root_data_2"] }

OrphanRowDomain == { [version |-> 1, sequence |-> 1, at |-> 2] }

SeqsUpTo(S, n) == UNION { [1..k -> S] : k \in 0..n }

\* A file left at the destination path by an earlier run.
StaleDB == [t \in {"tree_1"} |-> {[version |-> NullInt64(7), sequence |-> 7,
                                   bytes |-> "stale", orphaned |-> FALSE]}]

NoDB == [t \in {} |-> {}]

\* Nothing printed by log.Fatalf.
NoLog == [stmt |-> "none", table |-> "none", err |-> "none"]

TreeInit ==
    /\ oldTree \in SeqsUpTo(TreeRowDomain, MaxTreeRows)
    /\ oldRoot \in SUBSET RootRowDomain
    /\ oldHasOrphan \in BOOLEAN
    /\ oldOrphan \in IF oldHasOrphan THEN SUBSET OrphanRowDomain ELSE {{}}
    /\ newDB \in {NoDB, StaleDB}
    /\ attached = FALSE
    /\ count = 0
    /\ rootCount = 0
    /\ minVersion = SqlNull
    /\ maxVersion = SqlNull
    /\ shardIDs = <<>>
    /\ shardIdx = 0
    /\ tpc = "open"
    /\ tret = "none"
    /\ tlog = NoLog

\* fmt.Sprintf("tree_%d", shardID)
TableName(shardID) == "tree_" \o ToString(shardID)

\* CREATE TABLE: fails when the table exists already.
CanCreate(db, name) == name \notin DOMAIN db

CreateTable(db, name) == [t \in DOMAIN db \cup {name} |-> IF t = name THEN {} ELSE db[t]]

RootKey(r) == <<r.version>>

OrphanKey(r) == <<r.at, r.version, r.sequence>>

TreeKey(r) == <<r.version, r.sequence>>

\* The PRIMARY KEY of a row of the destination table name.
PrimaryKey(name, r) ==
    IF name = "root" THEN RootKey(r)
    ELSE IF name = "branch_orphan" THEN OrphanKey(r)
    ELSE TreeKey(r)

\* INSERT INTO name ... : fails when the table is missing or a primary key
\* would occur twice.
CanInsert(db, name, rows) ==
    /\ name \in DOMAIN db
    /\ \A r1 \in rows, r2 \in rows \cup db[name] :
          PrimaryKey(name, r1) = PrimaryKey(name, r2) => r1 = r2

Insert(db, name, rows) == [db EXCEPT ![name] = @ \cup rows]

\* Go's return and log.Fatalf (os.Exit) out of migrateTree.
TreeReturn(err) == tpc' = "returned" /\ tret' = err

TreeFatal == tpc' = "exited" /\ tret' = "none"

\* Line 160: log.Fatalf("exec [%s]: %v", sqlStmt, err)
Fatalf(stmt, table, err) == tlog' = [stmt |-> stmt, table |-> table, err |-> err]

\* Mutant of RemoveFile: the file of an earlier run is left in place.
RemoveFileKeep(db) == db

\* Line 148: os.Remove(newPath).
RemoveFile(db) == NoDB

\* Lines 141-156: open the source, remove any file at the destination path,
\* create its directory (which may fail) and open the new destination.
OpenDBs ==
    /\ tpc = "open"
    /\ newDB' = RemoveFile(newDB)
    /\ \E ok \in BOOLEAN :
         IF ok THEN tpc' = "createBranchOrphan" /\ tret' = tret
               ELSE TreeReturn("mkdir")
    /\ UNCHANGED <<notTree, treeSource, treeLocals, attached, tlog>>

\* exec(CREATE TABLE name): log.Fatalf when the statement fails.
ExecCreate(name, next) ==
    \E ok \in BOOLEAN :
        IF ok /\ CanCreate(newDB, name)
        THEN /\ newDB' = CreateTable(newDB, name) /\ tpc' = next /\ tret' = tret
             /\ tlog' = tlog
        ELSE /\ newDB' = newDB /\ TreeFatal
             /\ Fatalf("CREATE TABLE", name,
                       IF ok THEN "table already exists" ELSE "failed")

\* Lines 165-168.
CreateBranchOrphan ==
    /\ tpc = "createBranchOrphan"
    /\ ExecCreate("branch_orphan", "createRoot")
    /\ UNCHANGED <<notTree, treeSource, treeLocals, attached>>

\* Lines 169-172.
CreateRoot ==
    /\ tpc = "createRoot"
    /\ ExecCreate("root", "attach")
    /\ UNCHANGED <<notTree, treeSource, treeLocals, attached>>

\* Line 175.
AttachOld ==
    /\ tpc = "attach"
    /\ \E ok \in BOOLEAN :
         IF ok THEN attached' = TRUE /\ tpc' = "count" /\ tret' = tret /\ tlog' = tlog
               ELSE attached' = attached /\ TreeFatal
                    /\ Fatalf("ATTACH DATABASE", "old", "failed")
    /\ UNCHANGED <<notTree, treeSource, newDB, treeLocals>>

\* Mutant of NothingToMigrate: the root count is not looked at.
NothingToMigrateTreeOnly(c, rc) == c = 0

\* Line 194.
NothingToMigrate(c, rc) == c = 0 /\ rc = 0

\* Lines 181-198: count the rows of tree_1 and of root; a failing query is
\* returned as an error; with no row in either, detach and return.
CountRows ==
    /\ tpc = "count"
    /\ \E ok \in {"ok", "tree_1", "root"} :
         IF ok = "ok"
         THEN /\ count' = Len(oldTree)
              /\ rootCount' = Cardinality(oldRoot)
              /\ tpc' = IF NothingToMigrate(count', rootCount')
                        THEN "detach" ELSE "copyRoot"
              /\ tret' = tret
         ELSE /\ count' = IF ok = "root" THEN Len(oldTree) ELSE count
              /\ rootCount' = rootCount
              /\ TreeReturn("failed to count rows in " \o ok)
    /\ UNCHANGED <<notTree, treeSource, newDB, attached, minVersion, maxVersion,
                   shardIDs, shardIdx, tlog>>

\* exec(INSERT INTO name ... SELECT ...): log.Fatalf when the statement fails.
ExecInsert(name, rows, readable, next) ==
    \E ok \in BOOLEAN :
        IF ok /\ readable /\ CanInsert(newDB, name, rows)
        THEN /\ newDB' = Insert(newDB, name, rows) /\ tpc' = next /\ tret' = tret
             /\ tlog' = tlog
        ELSE /\ newDB' = newDB /\ TreeFatal
             /\ Fatalf("INSERT INTO", name,
                       IF ~ok THEN "failed"
                       ELSE IF ~readable THEN "no such table"
                       ELSE "constraint failed")

\* Line 204: SELECT version, node_version, node_sequence, bytes FROM old.root
SelectRoot(rows) ==
    { [version |-> r.version, node_version |-> r.node_version,
       node_sequence |-> r.node_sequence, bytes |-> r.bytes] : r \in rows }

\* Lines 200-205.
CopyRoot ==
    /\ tpc = "copyRoot"
    /\ IF rootCount > 0
       THEN ExecInsert("root", SelectRoot(oldRoot), attached, "copyOrphan")
       ELSE newDB' = newDB /\ tpc' = "copyOrphan" /\ tret' = tret /\ tlog' = tlog
    /\ UNCHANGED <<notTree, treeSource, treeLocals, attached>>

\* Mutant of SelectOrphan: the columns version and at change places.
SelectOrphanSwapped(rows) ==
    { [version |-> r.at, sequence |-> r.sequence, at |-> r.version] : r \in rows }

\* Line 210: SELECT version, sequence, at FROM old.orphan
SelectOrphan(rows) ==
    { [version |-> r.version, sequence |-> r.sequence, at |-> r.at] : r \in rows }

\* Lines 207-210: the statement reads old.orphan, and fails without it.
CopyOrphan ==
    /\ tpc = "copyOrphan"
    /\ ExecInsert("branch_orphan", SelectOrphan(oldOrphan),
                  attached /\ oldHasOrphan, "versionRange")
    /\ UNCHANGED <<notTree, treeSource, treeLocals, attached>>

ValidVersions(rows) ==
    { rows[i].version.Int64 : i \in { j \in 1..Len(rows) : rows[j].version.Valid } }

Min(S) == CHOOSE x \in S : \A y \in S : x <= y

Max(S) == CHOOSE x \in S : \A y \in S : x >= y

\* SELECT MIN(version), MAX(version) FROM tree_1 WHERE version IS NOT NULL
QueryMin(rows) ==
    IF ValidVersions(rows) = {} THEN SqlNull ELSE NullInt64(Min(ValidVersions(rows)))

QueryMax(rows) ==
    IF ValidVersions(rows) = {} THEN SqlNull ELSE NullInt64(Max(ValidVersions(rows)))

\* Lines 212-237 and 271-273: with rows in tree_1, query the version range
\* (a failing query is returned as an error; no valid version: detach and
\* return) and compute the shards; with none, skip to the detach.
VersionRange ==
    /\ tpc = "versionRange"
    /\ IF count > 0
       THEN \E ok \in BOOLEAN :
              IF ok
              THEN /\ minVersion' = QueryMin(oldTree)
                   /\ maxVersion' = QueryMax(oldTree)
                   /\ IF ~minVersion'.Valid \/ ~maxVersion'.Valid
                      THEN shardIDs' = shardIDs /\ shardIdx' = shardIdx
                           /\ tpc' = "detach"
                      ELSE /\ shardIDs' = calculateShardRange(minVersion'.Int64,
                                                              maxVersion'.Int64)
                           /\ shardIdx' = 1
                           /\ tpc' = "createShards"
                   /\ tret' = tret
              ELSE /\ UNCHANGED <<minVersion, maxVersion, shardIDs, shardIdx>>
                   /\ TreeReturn("failed to query version range from tree_1")
       ELSE /\ UNCHANGED <<minVersion, maxVersion, shardIDs, shardIdx>>
            /\ tpc' = "detach" /\ tret' = tret
    /\ UNCHANGED <<notTree, treeSource, newDB, attached, count, rootCount, tlog>>

\* Lines 239-247: one iteration of the loop creating the shard tables.
CreateShard ==
    /\ tpc = "createShards"
    /\ IF shardIdx <= Len(shardIDs)
       THEN /\ ExecCreate(TableName(shardIDs[shardIdx]), "createShards")
            /\ shardIdx' = shardIdx + 1
       ELSE /\ newDB' = newDB /\ tret' = tret /\ tlog' = tlog
            /\ tpc' = "copyShards"
            /\ shardIdx' = 1
    /\ UNCHANGED <<notTree, treeSource, attached, count, rootCount, minVersion,
                   maxVersion, shardIDs>>

\* Line 257.
startVersion(shardID) == (shardID - 1) * 500000 + 1

\* Mutant of endVersion: the window runs into the next shard's first version.
endVersionOverlapping(shardID) == shardID * 500000 + 1

\* Line 258.
endVersion(shardID) == shardID * 500000

\* WHERE version >= lo AND version <= hi (never true of a NULL version).
InWindow(r, lo, hi) ==
    r.version.Valid /\ r.version.Int64 >= lo /\ r.version.Int64 <= hi

\* Lines 264-269: the rows of old.tree_1 in the window that are the first, by
\* rowid, of their (version, sequence) partition (rn = 1).
SelectShardRows(rows, lo, hi) ==
    { rows[i] : i \in { j \in 1..Len(rows) :
                          /\ InWindow(rows[j], lo, hi)
                          /\ \A k \in 1..(j - 1) :
                                TreeKey(rows[k]) # TreeKey(rows[j]) } }

\* Lines 252-270: one iteration of the loop filling the shard tables.
CopyShard ==
    /\ tpc = "copyShards"
    /\ IF shardIdx <= Len(shardIDs)
       THEN /\ ExecInsert(TableName(shardIDs[shardIdx]),
                          SelectShardRows(oldTree,
                                          startVersion(shardIDs[shardIdx]),
                                          endVersion(shardIDs[shardIdx])),
                          attached, "copyShards")
            /\ shardIdx' = shardIdx + 1
       ELSE /\ newDB' = newDB /\ tret' = tret /\ tlog' = tlog
            /\ tpc' = "detach"
            /\ shardIdx' = shardIdx
    /\ UNCHANGED <<notTree, treeSource, attached, count, rootCount, minVersion,
                   maxVersion, shardIDs>>

\* Lines 196-197, 220-221, 229-230 and 275-279: detach and return nil.
DetachOld ==
    /\ tpc = "detach"
    /\ \E ok \in BOOLEAN :
         IF ok /\ attached
         THEN attached' = FALSE /\ TreeReturn("nil") /\ tlog' = tlog
         ELSE attached' = attached /\ TreeFatal
              /\ Fatalf("DETACH DATABASE", "old", "failed")
    /\ UNCHANGED <<notTree, treeSource, newDB, treeLocals>>

TreeNext ==
    \/ OpenDBs
    \/ CreateBranchOrphan
    \/ CreateRoot
    \/ AttachOld
    \/ CountRows
    \/ CopyRoot
    \/ CopyOrphan
    \/ VersionRange
    \/ CreateShard
    \/ CopyShard
    \/ DetachOld


\* ------------------------------------------------------------------------
\* Changelog store migrator (migrateChangelog)
\* ------------------------------------------------------------------------

\* Bound on the number of rows of the source leaf table.
MaxLeafRows == 2

\* Number of distinct digests of the model's hash.
HashSpace == 5

\* Leaf keys are byte strings.
KeyDomain == { <<1>>, <<2>>, <<2, 1>> }

LeafRowDomain ==
    { [version |-> v, sequence |-> q, key |-> k, bytes |-> p[1], orphaned |-> p[2]] :
        v \in {1, 2}, q \in {1, 2}, k \in KeyDomain,
        p \in {<<"x", FALSE>>, <<"y", TRUE>>} }

LeafOrphanRowDomain == { [version |-> 1, sequence |-> 1, at |-> 2] }

\* A changelog file left at the destination path by an earlier run.
StaleChangelog == [t \in {"leaf_orphan"} |-> {[version |-> 7, sequence |-> 7, at |-> 7]}]

\* hash.Hash of the pool: Reset, Write and Sum over the data written so far.
\* The digest is a polynomial of the bytes, so that it depends on every byte
\* written and distinct keys may collide.
HashReset(data) == <<>>

HashWrite(data, key) == data \o key

RECURSIVE HashSum(_)
HashSum(data) ==
    IF data = <<>> THEN 0
    ELSE (HashSum(SubSeq(data, 1, Len(data) - 1)) * 3 + data[Len(data)]) % HashSpace

\* The digest of a key by a fresh hasher.
H(key) == HashSum(HashWrite(<<>>, key))

\* sql NULL in a BOOL column.
NullBool == [Bool |-> FALSE, Valid |-> FALSE]

ChangelogInit ==
    /\ oldLeaf \in SeqsUpTo(LeafRowDomain, MaxLeafRows)
    /\ oldLeafOrphan \in SUBSET LeafOrphanRowDomain
    /\ clDB \in {NoDB, StaleChangelog}
    /\ clTx = NoDB
    /\ h \in {<<>>, <<2>>}
    /\ rowIdx = 0
    /\ cpc = "open"
    /\ cret = "none"

ClReturn(err) == cpc' = "returned" /\ cret' = err

\* Lines 312-328: open the source, remove any file at the destination path,
\* create its directory (which may fail) and open the new destination.
ClOpenDBs ==
    /\ cpc = "open"
    /\ clDB' = RemoveFile(clDB)
    /\ \E ok \in BOOLEAN :
         IF ok THEN cpc' = "begin" /\ cret' = cret
               ELSE ClReturn("mkdir")
    /\ UNCHANGED <<notChangelog, clSource, clTx, h, rowIdx>>

\* Lines 330-333: the transaction starts from what the file holds.
ClBegin ==
    /\ cpc = "begin"
    /\ \E ok \in BOOLEAN :
         IF ok THEN clTx' = clDB /\ cpc' = "create" /\ cret' = cret
               ELSE clTx' = clTx /\ ClReturn("begin")
    /\ UNCHANGED <<notChangelog, clSource, clDB, h, rowIdx>>

\* Lines 336-352.
createStmt == <<"leaf", "leaf_idx", "leaf_orphan">>

\* The objects of db after the first n statements of createStmt.
RECURSIVE CreateFirst(_, _)
CreateFirst(db, n) ==
    IF n = 0 THEN db ELSE CreateTable(CreateFirst(db, n - 1), createStmt[n])

\* Lines 353-357: the statements run in order inside the transaction; the
\* first that fails is returned as an error.
ClCreateTables ==
    /\ cpc = "create"
    /\ \E n \in 0..Len(createStmt) :
         /\ \A i \in 1..n : CanCreate(CreateFirst(clTx, i - 1), createStmt[i])
         /\ clTx' = CreateFirst(clTx, n)
         /\ IF n = Len(createStmt)
            THEN cpc' = "prepare" /\ cret' = cret
            ELSE ClReturn("exec " \o createStmt[n + 1])
    /\ UNCHANGED <<notChangelog, clSource, clDB, h, rowIdx>>

\* Lines 359-375: query the source leaf table, prepare the insert and take a
\* hasher from the pool; a failing query or prepare is returned.
ClPrepare ==
    /\ cpc = "prepare"
    /\ \E ok \in {"ok", "read old leaf", "prepare"} :
         IF ok = "ok" THEN cpc' = "scan" /\ cret' = cret
                      ELSE ClReturn(ok)
    /\ UNCHANGED <<notChangelog, clSource, clDB, clTx, h, rowIdx>>

\* Line 367: INSERT INTO leaf(version, sequence, key_hash, bytes); the column
\* orphaned is left NULL.
LeafRow(version, sequence, keyHash, value) ==
    [version |-> version, sequence |-> sequence, key_hash |-> keyHash,
     bytes |-> value, orphaned |-> NullBool]

\* Lines 343-345: PRIMARY KEY (key_hash, version) and the unique index
\* leaf_idx on (version, sequence).
CanInsertLeaf(db, r) ==
    /\ "leaf" \in DOMAIN db
    /\ \A t \in db["leaf"] :
          /\ <<t.key_hash, t.version>> # <<r.key_hash, r.version>>
          /\ ("leaf_idx" \in DOMAIN db =>
                <<t.version, t.sequence>> # <<r.version, r.sequence>>)

\* Lines 377-395: one turn of "for rows.Next()".  rows.Next() reports false
\* at the end of the rows and on a failing read alike, and rows.Err() is not
\* consulted: both leave the loop.  A failing Scan or insert is returned.
ClScanRow ==
    /\ cpc = "scan"
    /\ IF rowIdx < Len(oldLeaf)
       THEN \E next \in {"row", "read fails", "scan fails", "insert fails"} :
              LET r == oldLeaf[rowIdx + 1]
                  written == HashWrite(HashReset(h), r.key)
                  row == LeafRow(r.version, r.sequence, HashSum(written), r.bytes)
              IN  CASE next = "read fails" ->
                         /\ cpc' = "attach" /\ cret' = cret
                         /\ UNCHANGED <<clTx, h, rowIdx>>
                    [] next = "scan fails" ->
                         /\ ClReturn("scan")
                         /\ UNCHANGED <<clTx, h, rowIdx>>
                    [] next = "insert fails" \/ ~CanInsertLeaf(clTx, row) ->
                         /\ ClReturn("insert")
                         /\ h' = written
                         /\ UNCHANGED <<clTx, rowIdx>>
                    [] OTHER ->
                         /\ clTx' = Insert(clTx, "leaf", {row})
                         /\ h' = written
                         /\ rowIdx' = rowIdx + 1
                         /\ cpc' = cpc /\ cret' = cret
       ELSE /\ cpc' = "attach" /\ cret' = cret
            /\ UNCHANGED <<clTx, h, rowIdx>>
    /\ UNCHANGED <<notChangelog, clSource, clDB>>

\* Lines 399-402.
ClAttach ==
    /\ cpc = "attach"
    /\ \E ok \in BOOLEAN :
         IF ok THEN cpc' = "copyLeafOrphan" /\ cret' = cret
               ELSE ClReturn("failed to attach old database")
    /\ UNCHANGED <<notChangelog, clSource, clDB, clTx, h, rowIdx>>

\* Lines 404-407.
ClCopyLeafOrphan ==
    /\ cpc = "copyLeafOrphan"
    /\ \E ok \in BOOLEAN :
         IF ok /\ CanInsert(clTx, "leaf_orphan", SelectOrphan(oldLeafOrphan))
         THEN /\ clTx' = Insert(clTx, "leaf_orphan", SelectOrphan(oldLeafOrphan))
              /\ cpc' = "commit" /\ cret' = cret
         ELSE clTx' = clTx /\ ClReturn("migrate leaf_orphan")
    /\ UNCHANGED <<notChangelog, clSource, clDB, h, rowIdx>>

\* Mutant of Commit: a commit that reports an error has written the file.
CommitAnyway(ok, db, tx) == tx

\* Line 409: tx.Commit() makes the transaction's tables the file's, or fails
\* and leaves the file as it was.
Commit(ok, db, tx) == IF ok THEN tx ELSE db

\* Lines 409-411.
ClCommit ==
    /\ cpc = "commit"
    /\ \E ok \in BOOLEAN :
         /\ clDB' = Commit(ok, clDB, clTx)
         /\ IF ok THEN cpc' = "detach" /\ cret' = cret
                  ELSE ClReturn("commit")
    /\ UNCHANGED <<notChangelog, clSource, clTx, h, rowIdx>>

\* Lines 413-419: the detach runs after the commit; its failure is returned.
ClDetach ==
    /\ cpc = "detach"
    /\ \E ok \in BOOLEAN :
         IF ok THEN ClReturn("nil")
               ELSE ClReturn("failed to detach old database")
    /\ UNCHANGED <<notChangelog, clSource, clDB, clTx, h, rowIdx>>

ChangelogNext ==
    \/ ClOpenDBs
    \/ ClBegin
    \/ ClCreateTables
    \/ ClPrepare
    \/ ClScanRow
    \/ ClAttach
    \/ ClCopyLeafOrphan
    \/ ClCommit
    \/ ClDetach

\* ------------------------------------------------------------------------
\* Orchestrator (migrate, migrateStore, getStoreKeys)
\* ------------------------------------------------------------------------

\* The names a base directory may hold, in the order os.ReadDir lists them
\* (sorted by filename).
StoreNames == <<"bank", "evm", "gov">>

NameSet == { StoreNames[i] : i \in 1..Len(StoreNames) }

\* A listing: for each name, no entry, a plain file or a directory.
RECURSIVE ListingOf(_, _)
ListingOf(kind, i) ==
    IF i > Len(StoreNames) THEN <<>>
    ELSE IF kind[i] = "none" THEN ListingOf(kind, i + 1)
    ELSE <<[name |-> StoreNames[i], isDir |-> kind[i] = "dir"]>>
         \o ListingOf(kind, i + 1)

Listings ==
    { ListingOf(kind, 1) : kind \in [1..Len(StoreNames) -> {"none", "file", "dir"}] }

\* Values of --store-keys after strings.Split; <<>> when the flag is unset.
Filters == { <<>>, <<"evm">>, <<"gov", "bank">>, <<"evm", "nosuch">> }

\* Mutant of filterSet: the allow-list is dropped.
filterSetEmpty(f) == {}

\* Lines 428-431.
filterSet(f) == { f[i] : i \in 1..Len(f) }

\* Lines 432-440: the directories of the listing, in listing order, that
\* pass the filter.
RECURSIVE StoreLoop(_, _, _)
StoreLoop(es, f, i) ==
    IF i > Len(es) THEN <<>>
    ELSE IF ~es[i].isDir THEN StoreLoop(es, f, i + 1)
    ELSE IF Cardinality(filterSet(f)) > 0 /\ es[i].name \notin filterSet(f)
         THEN StoreLoop(es, f, i + 1)
    ELSE <<es[i].name>> \o StoreLoop(es, f, i + 1)

\* Lines 422-442.
getStoreKeys(es, f) == StoreLoop(es, f, 1)

\* Before line 78: the locals of the parallel mode do not exist yet.
ParIdle ==
    /\ maxWorkers = 0 /\ sem = 0 /\ wg = 0
    /\ firstErr = "nil" /\ mu = "free"
    /\ gpc = [s \in NameSet |-> "none"]

MigrateInit ==
    /\ entries \in Listings
    /\ filter \in Filters
    /\ concurrent = FALSE
    /\ stores = <<>>
    /\ storeIdx = 0
    /\ spc = [s \in NameSet |-> "idle"]
    /\ sret = [s \in NameSet |-> "none"]
    /\ treeRun = [s \in NameSet |-> "none"]
    /\ clRun = [s \in NameSet |-> "none"]
    /\ mpc = "start"
    /\ mret = "none"
    /\ ParIdle

MigrateReturn(err) == mpc' = "returned" /\ mret' = err

\* The process runs until migrate returns or log.Fatalf ends it.
Running == mpc \notin {"returned", "exited"}

\* Lines 63-69: enumerate the stores; os.ReadDir may fail.
MigrateStart ==
    /\ mpc = "start"
    /\ ~concurrent
    /\ \E ok \in BOOLEAN :
         IF ok
         THEN /\ stores' = getStoreKeys(entries, filter)
              /\ storeIdx' = 1
              /\ mpc' = "loop" /\ mret' = mret
         ELSE /\ UNCHANGED <<stores, storeIdx>>
              /\ MigrateReturn("readdir")
    /\ UNCHANGED <<notMigrate, migInput, spc, sret, treeRun, clRun, parVars>>

\* Lines 70-71 and 75: the sequential loop calls migrateStore for the next
\* store, or returns nil after the last.
SeqCall ==
    /\ mpc = "loop"
    /\ ~concurrent
    /\ IF storeIdx <= Len(stores)
       THEN /\ spc' = [spc EXCEPT ![stores[storeIdx]] = "statTree"]
            /\ mpc' = "inStore" /\ mret' = mret
       ELSE /\ spc' = spc
            /\ MigrateReturn("nil")
    /\ UNCHANGED <<notMigrate, migInput, stores, storeIdx, sret, treeRun, clRun,
                   parVars>>

StoreReturn(s, err) ==
    /\ spc' = [spc EXCEPT ![s] = "done"]
    /\ sret' = [sret EXCEPT ![s] = err]

\* Mutant of NotFound: the message always names tree.sqlite.
NotFoundTree(file, s) == "tree.sqlite not found: " \o s

\* Lines 117 and 130: fmt.Sprintf("<file> not found: %s", path), the path
\* being that of the store's file.
NotFound(file, s) == file \o " not found: " \o s

\* Lines 110-111 and 116-120: os.Stat of the store's tree.sqlite.
StatTree(s) ==
    /\ Running
    /\ spc[s] = "statTree"
    /\ \E exists \in BOOLEAN :
         IF exists
         THEN spc' = [spc EXCEPT ![s] = "tree"] /\ sret' = sret
              /\ treeRun' = treeRun
         ELSE StoreReturn(s, NotFound("tree.sqlite", s))
              /\ treeRun' = [treeRun EXCEPT ![s] = "missing"]
    /\ UNCHANGED <<notMigrate, migInput, stores, storeIdx, clRun, mpc, mret,
                   parVars>>

\* Mutant of TreeFailed: the error of migrateTree is dropped.
TreeFailedNever(err) == FALSE

\* Line 112: err != nil
TreeFailed(err) == err # "nil"

\* Lines 112-115 and 121: migrateTree returns nil or an error, or ends the
\* process (log.Fatalf); its error is returned as it is.
RunTree(s) ==
    /\ Running
    /\ spc[s] = "tree"
    /\ \E out \in {"nil", "error", "fatal"} :
         /\ treeRun' = [treeRun EXCEPT ![s] = out]
         /\ IF out = "fatal"
            THEN /\ mpc' = "exited"
                 /\ UNCHANGED <<spc, sret, mret>>
            ELSE /\ IF TreeFailed(out)
                    THEN StoreReturn(s, "migrateTree: " \o s)
                    ELSE spc' = [spc EXCEPT ![s] = "statChangelog"] /\ sret' = sret
                 /\ UNCHANGED <<mpc, mret>>
    /\ UNCHANGED <<notMigrate, migInput, stores, storeIdx, clRun, parVars>>

\* Lines 123-124 and 129-133: os.Stat of the store's changelog.sqlite.
StatChangelog(s) ==
    /\ Running
    /\ spc[s] = "statChangelog"
    /\ \E exists \in BOOLEAN :
         IF exists
         THEN spc' = [spc EXCEPT ![s] = "changelog"] /\ sret' = sret
              /\ clRun' = clRun
         ELSE StoreReturn(s, NotFound("changelog.sqlite", s))
              /\ clRun' = [clRun EXCEPT ![s] = "missing"]
    /\ UNCHANGED <<notMigrate, migInput, stores, storeIdx, treeRun, mpc, mret,
                   parVars>>

\* Lines 125-128 and 134-136: migrateChangelog returns nil or an error.
RunChangelog(s) ==
    /\ Running
    /\ spc[s] = "changelog"
    /\ \E out \in {"nil", "error"} :
         /\ clRun' = [clRun EXCEPT ![s] = out]
         /\ IF out = "nil"
            THEN StoreReturn(s, "nil")
            ELSE StoreReturn(s, "migrateChangelog: " \o s)
    /\ UNCHANGED <<notMigrate, migInput, stores, storeIdx, treeRun, mpc, mret,
                   parVars>>

\* Mutant of Failed: the error of a store is dropped.
FailedNever(err) == FALSE

\* Line 71: err != nil
Failed(err) == err # "nil"

\* Lines 71-73: back from migrateStore, the sequential loop returns its
\* error or goes on to the next store.
SeqResume ==
    /\ mpc = "inStore"
    /\ spc[stores[storeIdx]] = "done"
    /\ IF Failed(sret[stores[storeIdx]])
       THEN /\ MigrateReturn(sret[stores[storeIdx]])
            /\ storeIdx' = storeIdx
       ELSE /\ storeIdx' = storeIdx + 1
            /\ mpc' = "loop" /\ mret' = mret
    /\ UNCHANGED <<notMigrate, migInput, stores, spc, sret, treeRun, clRun,
                   parVars>>

MigrateNext ==
    \/ MigrateStart
    \/ SeqCall
    \/ SeqResume
    \/ \E s \in NameSet : StatTree(s)
    \/ \E s \in NameSet : RunTree(s)
    \/ \E s \in NameSet : StatChangelog(s)
    \/ \E s \in NameSet : RunChangelog(s)

\* ------------------------------------------------------------------------
\* Orchestrator, parallel mode (migrate, lines 78-101)
\* ------------------------------------------------------------------------

\* The largest number of logical CPUs considered.
MaxCPU == 2

\* runtime.NumCPU()
NumCPUs == 1..MaxCPU

ParallelInit ==
    /\ entries \in Listings
    /\ filter \in Filters
    /\ concurrent = TRUE
    /\ stores = <<>>
    /\ storeIdx = 0
    /\ spc = [s \in NameSet |-> "idle"]
    /\ sret = [s \in NameSet |-> "none"]
    /\ treeRun = [s \in NameSet |-> "none"]
    /\ clRun = [s \in NameSet |-> "none"]
    /\ mpc = "start"
    /\ mret = "none"
    /\ ParIdle

\* Lines 63-68 and 78-83: enumerate the stores (os.ReadDir may fail), then
\* set up the semaphore, the WaitGroup, firstErr and the mutex.
ParStart ==
    /\ mpc = "start"
    /\ concurrent
    /\ \E ok \in BOOLEAN :
         IF ok
         THEN /\ stores' = getStoreKeys(entries, filter)
              /\ storeIdx' = 1
              /\ \E n \in NumCPUs : maxWorkers' = n
              /\ sem' = 0 /\ wg' = 0 /\ firstErr' = "nil" /\ mu' = "free"
              /\ mpc' = "loop" /\ mret' = mret
         ELSE /\ UNCHANGED <<stores, storeIdx, maxWorkers, sem, wg, firstErr, mu>>
              /\ MigrateReturn("readdir")
    /\ UNCHANGED <<notMigrate, migInput, spc, sret, treeRun, clRun, gpc>>

\* Lines 84-85: the dispatch loop takes the next store and counts it in the
\* WaitGroup, or is over.
ParLoop ==
    /\ mpc = "loop"
    /\ concurrent
    /\ IF storeIdx <= Len(stores)
       THEN wg' = wg + 1 /\ mpc' = "send"
       ELSE wg' = wg /\ mpc' = "wait"
    /\ UNCHANGED <<notMigrate, migInput, stores, storeIdx, spc, sret, treeRun,
                   clRun, mret, maxWorkers, sem, firstErr, mu, gpc>>

\* Mutant of CanSend: the channel never blocks the sender.
CanSendAlways(n, cap) == TRUE

\* Line 86: a send on a buffered channel goes through when the buffer is
\* not full, and blocks otherwise.
CanSend(n, cap) == n < cap

\* Lines 86-88: put a token into sem, then start the store's goroutine.
ParSend ==
    /\ mpc = "send"
    /\ CanSend(sem, maxWorkers)
    /\ sem' = sem + 1
    /\ gpc' = [gpc EXCEPT ![stores[storeIdx]] = "run"]
    /\ spc' = [spc EXCEPT ![stores[storeIdx]] = "statTree"]
    /\ storeIdx' = storeIdx + 1
    /\ mpc' = "loop"
    /\ UNCHANGED <<notMigrate, migInput, stores, sret, treeRun, clRun, mret,
                   maxWorkers, wg, firstErr, mu>>

\* Line 90: back from migrateStore, the goroutine looks at the error.
GoCheck(s) ==
    /\ Running
    /\ gpc[s] = "run"
    /\ spc[s] = "done"
    /\ gpc' = [gpc EXCEPT ![s] = IF Failed(sret[s]) THEN "lock" ELSE "receive"]
    /\ UNCHANGED <<notMigrate, migInput, stores, storeIdx, spc, sret, treeRun,
                   clRun, mpc, mret, maxWorkers, sem, wg, firstErr, mu>>

\* Line 91: mu.Lock() waits until the mutex is free.
GoLock(s) ==
    /\ Running
    /\ gpc[s] = "lock"
    /\ mu = "free"
    /\ mu' = s
    /\ gpc' = [gpc EXCEPT ![s] = "record"]
    /\ UNCHANGED <<notMigrate, migInput, stores, storeIdx, spc, sret, treeRun,
                   clRun, mpc, mret, maxWorkers, sem, wg, firstErr>>

\* Mutant of FirstErrUnset: every failure is recorded.
FirstErrUnsetAlways(e) == TRUE

\* Line 92: firstErr == nil
FirstErrUnset(e) == e = "nil"

\* Lines 92-94.
GoRecord(s) ==
    /\ Running
    /\ gpc[s] = "record"
    /\ firstErr' = IF FirstErrUnset(firstErr) THEN sret[s] ELSE firstErr
    /\ gpc' = [gpc EXCEPT ![s] = "unlock"]
    /\ UNCHANGED <<notMigrate, migInput, stores, storeIdx, spc, sret, treeRun,
                   clRun, mpc, mret, maxWorkers, sem, wg, mu>>

\* Line 95: mu.Unlock()
GoUnlock(s) ==
    /\ Running
    /\ gpc[s] = "unlock"
    /\ mu' = "free"
    /\ gpc' = [gpc EXCEPT ![s] = "receive"]
    /\ UNCHANGED <<notMigrate, migInput, stores, storeIdx, spc, sret, treeRun,
                   clRun, mpc, mret, maxWorkers, sem, wg, firstErr>>

\* Mutant of Receive: the token stays in the channel.
ReceiveNothing(n) == n

\* Line 97: <-sem takes one token out of the channel.
Receive(n) == n - 1

\* Line 97: there is always a token to take, the goroutine's own.
GoReceive(s) ==
    /\ Running
    /\ gpc[s] = "receive"
    /\ sem > 0
    /\ sem' = Receive(sem)
    /\ gpc' = [gpc EXCEPT ![s] = "wgDone"]
    /\ UNCHANGED <<notMigrate, migInput, stores, storeIdx, spc, sret, treeRun,
                   clRun, mpc, mret, maxWorkers, wg, firstErr, mu>>

\* Line 89: the deferred wg.Done() as the goroutine's function returns.
GoDone(s) ==
    /\ Running
    /\ gpc[s] = "wgDone"
    /\ wg' = wg - 1
    /\ gpc' = [gpc EXCEPT ![s] = "finished"]
    /\ UNCHANGED <<notMigrate, migInput, stores, storeIdx, spc, sret, treeRun,
                   clRun, mpc, mret, maxWorkers, sem, firstErr, mu>>

\* Lines 100-101: wg.Wait() returns when the counter is zero; migrate
\* returns firstErr.
ParWait ==
    /\ mpc = "wait"
    /\ wg = 0
    /\ MigrateReturn(firstErr)
    /\ UNCHANGED <<notMigrate, migInput, stores, storeIdx, spc, sret, treeRun,
                   clRun, parVars>>

ParallelNext ==
    \/ ParStart
    \/ ParLoop
    \/ ParSend
    \/ ParWait
    \/ \E s \in NameSet : StatTree(s)
    \/ \E s \in NameSet : RunTree(s)
    \/ \E s \in NameSet : StatChangelog(s)
    \/ \E s \in NameSet : RunChangelog(s)
    \/ \E s \in NameSet : GoCheck(s)
    \/ \E s \in NameSet : GoLock(s)
    \/ \E s \in NameSet : GoRecord(s)
    \/ \E s \in NameSet : GoUnlock(s)
    \/ \E s \in NameSet : GoReceive(s)
    \/ \E s \in NameSet : GoDone(s)

\* ------------------------------------------------------------------------
\* Properties of the tree store migrator
\* ------------------------------------------------------------------------

TreeSucceeded == tpc = "returned" /\ tret = "nil"

ShardTables(db) == DOMAIN db \ {"root", "branch_orphan"}

SourceRows == { oldTree[i] : i \in 1..Len(oldTree) }

\* The rows of the destination shard table of shardID (none if it is absent).
ShardRows(shardID) ==
    IF TableName(shardID) \in DOMAIN newDB THEN newDB[TableName(shardID)] ELSE {}

\* C3: after a successful migrateTree every (version, sequence) key of the
\* source tree_1, non-positive versions included, is present in the shard
\* table tree_{ToShardID(version)}, and no shard table holds a key absent
\* from the source.
TreeKeysPreserved ==
    TreeSucceeded =>
        /\ \A r \in SourceRows :
              r.version.Valid =>
                  \E t \in ShardRows(ToShardID(r.version.Int64)) :
                      TreeKey(t) = TreeKey(r)
        /\ \A name \in ShardTables(newDB) : \A t \in newDB[name] :
              \E r \in SourceRows : TreeKey(r) = TreeKey(t)

\* C4: after a successful migrateTree, a key that several source rows share
\* has exactly one row in its shard table, and that row is one of those
\* source rows.
DuplicatesKeptOnce ==
    TreeSucceeded =>
        \A i \in 1..Len(oldTree), j \in 1..Len(oldTree) :
            (/\ i # j
             /\ oldTree[i].version.Valid
             /\ TreeKey(oldTree[i]) = TreeKey(oldTree[j])) =>
                LET kept == { t \in ShardRows(ToShardID(oldTree[i].version.Int64)) :
                                TreeKey(t) = TreeKey(oldTree[i]) }
                IN  /\ Cardinality(kept) = 1
                    /\ kept \subseteq SourceRows

\* C5: with no row in the source tree_1, a successful migrateTree creates no
\* shard table: the destination holds exactly root and branch_orphan,
\* whether or not the source has root rows.
EmptyTreeMakesNoShard ==
    (TreeSucceeded /\ oldTree = <<>>) =>
        DOMAIN newDB = {"root", "branch_orphan"}

EmptyTreeWitness ==
    /\ TreeSucceeded
    /\ oldTree = <<>>
    /\ oldRoot # {}
    /\ newDB["root"] # {}
    /\ ShardTables(newDB) = {}

\* C6: after a successful migrateTree the destination root table holds
\* exactly the source root rows.
RootCopiedVerbatim ==
    TreeSucceeded => ("root" \in DOMAIN newDB /\ newDB["root"] = oldRoot)

RootCopiedWitness ==
    /\ TreeSucceeded
    /\ oldTree = <<>>
    /\ Cardinality(oldRoot) = 2
    /\ newDB["root"] = oldRoot

\* C7 as claimed: after every successful migrateTree the destination
\* branch_orphan table holds exactly the source orphan rows, also when the
\* source has neither branch nor root rows.
OrphansAlwaysCopied ==
    TreeSucceeded =>
        ("branch_orphan" \in DOMAIN newDB /\ newDB["branch_orphan"] = oldOrphan)

\* C7 as amended: after a successful migrateTree the destination
\* branch_orphan table holds exactly the source orphan rows provided the
\* source has a branch row or a root row; with neither, migrateTree returns
\* before the orphan copy and the table stays empty.
OrphansCopiedUnlessEmpty ==
    TreeSucceeded =>
        /\ "branch_orphan" \in DOMAIN newDB
        /\ newDB["branch_orphan"] =
              IF oldTree = <<>> /\ oldRoot = {} THEN {} ELSE oldOrphan

OrphansCopiedWitness ==
    /\ TreeSucceeded
    /\ oldTree # <<>>
    /\ oldOrphan # {}
    /\ newDB["branch_orphan"] = oldOrphan

\* C16 as claimed: a failing row copy (INSERT ... SELECT into root,
\* branch_orphan or a shard table) is returned by migrateTree as an error
\* and never ends the process.
RowCopyFailureIsReturned ==
    tpc = "exited" => tlog.stmt # "INSERT INTO"

\* C17 as claimed: with branch or root rows in the source but no orphan
\* table, the orphan step is not an error: migrateTree never ends on the
\* missing table.
MissingOrphanTableIsSkipped ==
    (~oldHasOrphan /\ (oldTree # <<>> \/ oldRoot # {})) =>
        ~(/\ tpc = "exited"
          /\ tlog = [stmt |-> "INSERT INTO", table |-> "branch_orphan",
                     err |-> "no such table"])

\* The shard tables of the destination, by shard number.
ShardNumbers == { k \in 1..(MaxBoundary + 1) : TableName(k) \in DOMAIN newDB }

\* C19: in every state of migrateTree from the opening of the new
\* destination file on, every row of a shard table tree_k has a version in
\* [(k-1)*500000+1, k*500000], that is ToShardID(version) = k, and no
\* (version, sequence) key is in two shard tables.
ShardWindowInvariant ==
    tpc \notin {"idle", "open"} =>
        /\ ShardTables(newDB) = { TableName(k) : k \in ShardNumbers }
        /\ \A k \in ShardNumbers : \A r \in newDB[TableName(k)] :
              /\ r.version.Valid
              /\ r.version.Int64 >= (k - 1) * 500000 + 1
              /\ r.version.Int64 <= k * 500000
              /\ ToShardID(r.version.Int64) = k
        /\ \A k1 \in ShardNumbers, k2 \in ShardNumbers :
              \A r1 \in newDB[TableName(k1)], r2 \in newDB[TableName(k2)] :
                  TreeKey(r1) = TreeKey(r2) => k1 = k2

ShardWindowWitness ==
    /\ TreeSucceeded
    /\ \E r \in ShardRows(1) : r.version.Int64 = 500000
    /\ \E r \in ShardRows(2) : r.version.Int64 = 500001

\* ------------------------------------------------------------------------
\* Properties of the changelog store migrator
\* ------------------------------------------------------------------------

ClSucceeded == cpc = "returned" /\ cret = "nil"

\* The target row of a source leaf row: same version, sequence and bytes,
\* keyed by the digest of its own key alone, orphaned not carried over.
Rekeyed(r) == LeafRow(r.version, r.sequence, H(r.key), r.bytes)

\* The rows committed to the destination changelog file.
CommittedRows == UNION { clDB[t] : t \in DOMAIN clDB }

\* C8: after a successful migrateChangelog the target leaf table holds, for
\* every source leaf row (version, sequence, key, bytes), exactly one row
\* (version, sequence, H(key), bytes) and no other row, H(key) depending on
\* that row's key alone and the source orphaned flag not carried over.
LeafRekeyed ==
    ClSucceeded =>
        /\ "leaf" \in DOMAIN clDB
        /\ clDB["leaf"] = { Rekeyed(oldLeaf[i]) : i \in 1..Len(oldLeaf) }
        /\ Cardinality(clDB["leaf"]) = Len(oldLeaf)

\* C9 as claimed: whenever migrateChangelog returns an error, whatever step
\* failed, the destination holds no committed leaf or leaf_orphan row, and
\* rows are visible only when the function succeeds.
ErrorLeavesNothing ==
    cpc # "open" =>
        /\ (cpc = "returned" /\ cret # "nil") => CommittedRows = {}
        /\ (cpc = "returned" /\ CommittedRows # {}) => ClSucceeded

\* C9 as amended: an error returned from any step up to and including the
\* commit leaves the destination without any committed table or row; the
\* leaf and leaf_orphan rows become visible together, at the commit, as the
\* transaction holds them; the detach runs after the commit, so its error is
\* returned with the rows committed.
AtomicUntilCommit ==
    cpc # "open" =>
        /\ (cpc = "returned" /\ cret \notin {"nil", "failed to detach old database"})
              => clDB = NoDB
        /\ clDB # NoDB =>
              /\ clDB = clTx
              /\ \/ cpc = "detach"
                 \/ /\ cpc = "returned"
                    /\ cret \in {"nil", "failed to detach old database"}
        /\ (cpc = "returned" /\ cret \in {"nil", "failed to detach old database"})
              => clDB = clTx

AtomicWitness ==
    /\ cpc = "returned"
    /\ cret = "commit"
    /\ clTx["leaf"] # {}
    /\ clTx["leaf_orphan"] # {}
    /\ clDB = NoDB

\* ------------------------------------------------------------------------
\* Properties of the orchestrator
\* ------------------------------------------------------------------------

StoreStarted(s) == spc[s] # "idle"

StoreFailed(s) == spc[s] = "done" /\ sret[s] # "nil"

StoreSucceeded(s) == spc[s] = "done" /\ sret[s] = "nil"

\* C10: in sequential mode the stores are migrated one at a time in
\* enumeration order; once the migrateStore of a store has failed, no later
\* store is ever started and migrate returns that store's error; migrate
\* returns nil only if every store succeeded.
SequentialStopsAtFirstError ==
    ~concurrent =>
        /\ Cardinality({ s \in NameSet : spc[s] \notin {"idle", "done"} }) <= 1
        /\ \A s \in NameSet : StoreStarted(s) => \E i \in 1..Len(stores) : stores[i] = s
        /\ \A i \in 1..Len(stores), j \in 1..Len(stores) :
              (i < j /\ StoreStarted(stores[j])) => StoreSucceeded(stores[i])
        /\ \A i \in 1..Len(stores) :
              StoreFailed(stores[i]) =>
                  /\ mpc \in {"inStore", "returned"}
                  /\ mpc = "returned" => mret = sret[stores[i]]
        /\ (mpc = "returned" /\ mret = "nil") =>
              \A i \in 1..Len(stores) : StoreSucceeded(stores[i])
        /\ (mpc = "returned" /\ mret \notin {"nil", "readdir"}) =>
              \E i \in 1..Len(stores) : StoreFailed(stores[i]) /\ mret = sret[stores[i]]

SequentialWitness ==
    /\ ~concurrent
    /\ Len(stores) = 3
    /\ StoreSucceeded(stores[1])
    /\ StoreFailed(stores[2])
    /\ ~StoreStarted(stores[3])
    /\ mpc = "returned"
    /\ mret = sret[stores[2]]

\* C14: within a store migrateChangelog is reached (its file looked for,
\* the migrator run) only after migrateTree has returned nil for that
\* store; when migrateTree returns an error, migrateStore returns that error
\* and migrateChangelog is never started.
ChangelogAfterTreeSuccess ==
    \A s \in NameSet :
        /\ (spc[s] \in {"statChangelog", "changelog"} \/ clRun[s] # "none")
              => treeRun[s] = "nil"
        /\ treeRun[s] = "error" =>
              /\ clRun[s] = "none"
              /\ spc[s] = "done"
              /\ sret[s] = "migrateTree: " \o s

ChangelogAfterTreeWitness ==
    \E s \in NameSet, t \in NameSet :
        /\ treeRun[s] = "nil" /\ clRun[s] = "nil" /\ StoreSucceeded(s)
        /\ treeRun[t] = "error" /\ clRun[t] = "none" /\ StoreFailed(t)

\* C15 as claimed: when the store's tree.sqlite or its changelog.sqlite is
\* missing, migrateStore returns a not-found error naming the missing file
\* and has run neither migrateTree nor migrateChangelog.
MissingFileRunsNothing ==
    \A s \in NameSet :
        (treeRun[s] = "missing" \/ clRun[s] = "missing") =>
            /\ spc[s] = "done"
            /\ sret[s] = IF treeRun[s] = "missing"
                         THEN "tree.sqlite not found: " \o s
                         ELSE "changelog.sqlite not found: " \o s
            /\ treeRun[s] \in {"none", "missing"}
            /\ clRun[s] \in {"none", "missing"}

\* C15 as amended: a missing tree.sqlite makes migrateStore return the
\* not-found error naming it with neither migrator run; a missing
\* changelog.sqlite is found out only after migrateTree has run and
\* returned nil, and makes migrateStore return the not-found error naming
\* it without running migrateChangelog; migrateChangelog runs only after a
\* successful migrateTree.
MissingFileStopsStore ==
    \A s \in NameSet :
        /\ treeRun[s] = "missing" =>
              /\ spc[s] = "done"
              /\ sret[s] = "tree.sqlite not found: " \o s
              /\ clRun[s] = "none"
        /\ clRun[s] = "missing" =>
              /\ spc[s] = "done"
              /\ sret[s] = "changelog.sqlite not found: " \o s
              /\ treeRun[s] = "nil"
        /\ clRun[s] \in {"nil", "error"} => treeRun[s] = "nil"

MissingFileWitness ==
    \E s \in NameSet :
        /\ clRun[s] = "missing" /\ treeRun[s] = "nil" /\ StoreFailed(s)
        /\ mpc = "returned"
        /\ mret = "changelog.sqlite not found: " \o s

\* The names of the directories of the listing.
Dirs == { entries[i].name : i \in { j \in 1..Len(entries) : entries[j].isDir } }

\* The position of a name in the listing.
EntryIndex(name) == CHOOSE i \in 1..Len(entries) : entries[i].name = name

\* C18: getStoreKeys returns exactly the directories of the listing (plain
\* files left out), each once and in listing order: all of them with an
\* empty allow-list, with a non-empty one those named in it; names of the
\* allow-list that match no directory are ignored.
StoreKeysAreListedDirs ==
    (mpc \notin {"idle", "start"} /\ mret # "readdir") =>
        LET allowed == IF filter = <<>> THEN Dirs
                       ELSE { n \in Dirs : \E i \in 1..Len(filter) : filter[i] = n }
        IN  /\ { stores[i] : i \in 1..Len(stores) } = allowed
            /\ Len(stores) = Cardinality(allowed)
            /\ \A i \in 1..Len(stores), j \in 1..Len(stores) :
                  i < j => EntryIndex(stores[i]) < EntryIndex(stores[j])

StoreKeysWitness ==
    /\ mpc = "returned"
    /\ filter = <<"gov", "bank">>
    /\ Len(entries) = 3
    /\ ~entries[1].isDir
    /\ stores = <<"gov">>
    /\ StoreStarted("gov")

\* The stores enumerated by getStoreKeys.
StoreSet == { stores[i] : i \in 1..Len(stores) }

\* The migrateStore calls in progress.
InProgress == { s \in NameSet : spc[s] \notin {"idle", "done"} }

\* migrate has returned from its parallel mode (not from a failed listing).
ParallelReturned == concurrent /\ mpc = "returned" /\ mret # "readdir"

\* C11: in parallel mode, as long as no migrateStore call ends the process
\* instead of returning, migrate eventually returns with every enumerated
\* store's migrateStore started and returned, whatever the other stores
\* returned (the dispatch loop never stays blocked on the semaphore); and
\* migrate never returns before every store's goroutine has finished.
ParallelAttemptsAll ==
    /\ [](ParallelReturned =>
             \A s \in StoreSet : spc[s] = "done" /\ gpc[s] = "finished")
    /\ <>(\/ mpc = "exited"
          \/ /\ mpc = "returned"
             /\ \A s \in StoreSet : spc[s] = "done" /\ gpc[s] = "finished")

ParallelAttemptsWitness ==
    /\ ParallelReturned
    /\ maxWorkers = 1
    /\ Len(stores) = 3
    /\ StoreFailed(stores[1])
    /\ StoreSucceeded(stores[2])
    /\ StoreFailed(stores[3])
    /\ \A s \in StoreSet : gpc[s] = "finished"

\* C12: in parallel mode firstErr is written only by the goroutine holding
\* the mutex, only while it is nil, and with the error of that goroutine's
\* failed store; at most one goroutine is between Lock and Unlock; migrate
\* returns firstErr, which is nil exactly when every store succeeded and
\* otherwise the error of a store that failed.
FirstErrorWins ==
    /\ [][firstErr' # firstErr =>
             /\ firstErr = "nil"
             /\ \E s \in NameSet :
                   /\ mu = s /\ mu' = s
                   /\ StoreFailed(s)
                   /\ firstErr' = sret[s]]_vars
    /\ [](concurrent =>
             /\ { s \in NameSet : gpc[s] \in {"record", "unlock"} }
                   = { s \in NameSet : mu = s }
             /\ Cardinality({ s \in NameSet : mu = s }) <= 1)
    /\ [](ParallelReturned =>
             /\ mret = firstErr
             /\ mret = "nil" <=> \A s \in StoreSet : StoreSucceeded(s)
             /\ mret # "nil" => \E s \in StoreSet : StoreFailed(s) /\ mret = sret[s])

FirstErrorWitness ==
    /\ ParallelReturned
    /\ Len(stores) >= 2
    /\ StoreFailed(stores[1])
    /\ StoreFailed(stores[2])
    /\ sret[stores[1]] # sret[stores[2]]
    /\ mret = sret[stores[2]]

\* C13: in parallel mode the number of migrateStore calls in progress never
\* exceeds maxWorkers, the number of logical CPUs, however many stores
\* there are; nor does the number of tokens in the semaphore.
ParallelIsBounded ==
    concurrent =>
        /\ Cardinality(InProgress) <= maxWorkers
        /\ sem <= maxWorkers
        /\ maxWorkers <= MaxCPU

ParallelBoundedWitness ==
    /\ concurrent
    /\ Len(stores) = 3
    /\ Cardinality(InProgress) = maxWorkers
    /\ mpc = "send"
    /\ sem = maxWorkers

\* ------------------------------------------------------------------------
\* Specifications
\* ------------------------------------------------------------------------

ShardIdle == call = [op |-> "none"]

TreeIdle ==
    /\ oldTree = <<>> /\ oldRoot = {} /\ oldOrphan = {} /\ oldHasOrphan = TRUE
    /\ newDB = NoDB /\ attached = FALSE
    /\ count = 0 /\ rootCount = 0
    /\ minVersion = SqlNull /\ maxVersion = SqlNull
    /\ shardIDs = <<>> /\ shardIdx = 0
    /\ tpc = "idle" /\ tret = "none" /\ tlog = NoLog

ChangelogIdle ==
    /\ oldLeaf = <<>> /\ oldLeafOrphan = {}
    /\ clDB = NoDB /\ clTx = NoDB
    /\ h = <<>> /\ rowIdx = 0
    /\ cpc = "idle" /\ cret = "none"

\* migrate is not called.
MigrateIdle ==
    /\ entries = <<>> /\ filter = <<>> /\ concurrent = FALSE
    /\ stores = <<>> /\ storeIdx = 0
    /\ spc = [s \in NameSet |-> "idle"]
    /\ sret = [s \in NameSet |-> "none"]
    /\ treeRun = [s \in NameSet |-> "none"]
    /\ clRun = [s \in NameSet |-> "none"]
    /\ mpc = "idle" /\ mret = "none"
    /\ ParIdle

ShardSpecInit == ShardIdle /\ TreeIdle /\ ChangelogIdle /\ MigrateIdle

SpecShard == ShardSpecInit /\ [][ShardNext]_vars

\* One run of migrateTree on every source tree store within the bounds.
TreeSpecInit == TreeInit /\ ShardIdle /\ ChangelogIdle /\ MigrateIdle

SpecTree == TreeSpecInit /\ [][TreeNext]_vars

ChangelogSpecInit == ChangelogInit /\ ShardIdle /\ TreeIdle /\ MigrateIdle

\* One run of migrateChangelog on every source changelog store within the
\* bounds.
SpecChangelog == ChangelogSpecInit /\ [][ChangelogNext]_vars

MigrateSpecInit == MigrateInit /\ ShardIdle /\ TreeIdle /\ ChangelogIdle

ParallelSpecInit == ParallelInit /\ ShardIdle /\ TreeIdle /\ ChangelogIdle

\* One run of migrate in parallel mode on every listing and filter within
\* the bounds, under every interleaving of the goroutines.
SpecParallel == ParallelSpecInit /\ [][ParallelNext]_vars

\* The same under the Go scheduler: a goroutine that can take a step
\* eventually takes one.
SpecParallelFair == SpecParallel /\ WF_vars(ParallelNext)

\* One run of migrate on every listing and filter within the bounds.
SpecMigrate == MigrateSpecInit /\ [][MigrateNext]_vars

====
